---------------------------- MODULE Spec2Model ----------------------------
(***************************************************************************)
(* FlowVAESurfaceConditional (models/vae_flow_surface_mhsa.py) and the     *)
(* dataset layer (utils/dataset.py) of diffusion-point-cloud.              *)
(*                                                                         *)
(* Arithmetic.  float32 tensors are modelled in fixed point: every entry   *)
(* of a parameter, a buffer or an activation of the model is a multiple of *)
(* 1/Unit (the number 1.0 is Unit), every entry of a dataset tensor a      *)
(* multiple of 1/PcUnit.  Sums are exact, a product or a quotient is       *)
(* rounded to the nearest grid point (RDiv), sqrt(running_var + eps) is    *)
(* the square root rounded to the grid, and exp() in the softmax is        *)
(* e^(score - row maximum) by its power series with a resolution of        *)
(* 2^-ExpBits.  Shapes, the order of the operations, the train/eval        *)
(* duality and the Python value kinds (Tensor / tuple) are those of the    *)
(* source.                                                                 *)
(***************************************************************************)
EXTENDS Integers, Sequences, FiniteSets, TLC

VARIABLES sd, training, calls, last, loaded,      \* the model object
          ds, built, heap, statsFiles, handed     \* the dataset layer

modelVars == <<sd, training, calls, last, loaded>>
dataVars == <<ds, built, heap, statsFiles, handed>>
vars == <<modelVars, dataVars>>

\* ------------------------------------------------------------------ bounds
MaxBatch == 2
MaxCalls == 2
NumSteps == 3
MaxCates == 2
MaxReloads == 2

\* -------------------------------------------------------------- arithmetic
\* The fixed-point grid of the model's tensors: 1.0 is Unit.
Unit == 1000
Max(a, b) == IF a < b THEN b ELSE a
Min(a, b) == IF a < b THEN a ELSE b
RDiv(a, b) == (2 * a + b) \div (2 * b)
\* floor of the square root
SqrtStep(n, s) == IF (s + 1) * (s + 1) > n THEN s ELSE s + 1
RECURSIVE ISqrt(_)
ISqrt(n) == IF n < 2 THEN Max(n, 0) ELSE SqrtStep(n, 2 * ISqrt(n \div 4))
\* the square root rounded to the nearest integer
RSqrt(n) == (ISqrt(4 * n) + 1) \div 2

\* A sequence given element by element, as a tuple value (evaluated once).
AsTuple(f) == f \o <<>>

RECURSIVE SumSeq(_)
SumSeq(s) == IF s = <<>> THEN 0 ELSE s[1] + SumSeq(Tail(s))
Dot(u, v) == SumSeq(AsTuple([i \in 1..Len(u) |-> u[i] * v[i]]))
MatVec(W, x) == AsTuple([r \in 1..Len(W) |-> RDiv(Dot(W[r], x), Unit)])
VecAdd(u, v) == AsTuple([i \in 1..Len(u) |-> u[i] + v[i]])
MaxSeq(s) == CHOOSE m \in {s[i] : i \in 1..Len(s)} : \A i \in 1..Len(s) : s[i] <= m
RECURSIVE Pow2(_)
Pow2(n) == IF n <= 0 THEN 1 ELSE 2 * Pow2(n - 1)

\* ------------------------------------------------------ Python value kinds
None == [kind |-> "None"]
Tensor(d) == [kind |-> "Tensor", data |-> d]
PyTuple(items) == [kind |-> "tuple", items |-> items]
NoExc == "none"

\* ------------------------------------------------- dataset layer, no object
\* ds[i] is the dataset object bound to the name i, built[i] what its
\* constructor call was given and how it ended, heap the tensor storages (a
\* tensor is a handle [ref, shape] onto one of them), statsFiles the *_stats
\* directory and handed the sample last returned by __getitem__.
Instances == {"a", "b"}
NoDataset == [kind |-> "none"]
NotBuilt == [done |-> FALSE, loads |-> 0, stats_calls |-> 0]
NoSample == [inst |-> "none"]
DataFresh ==
  /\ ds = [i \in Instances |-> NoDataset]
  /\ built = [i \in Instances |-> NotBuilt]
  /\ heap = <<>>
  /\ statsFiles = <<>>
  /\ handed = NoSample

\* ----------------------------------------------------- model configuration
LatentDim == 2
NumHeads == 2
HeadDim == LatentDim \div NumHeads
Beta1 == 1
BetaT == 200
Momentum10 == 1
ExpBits == 14
\* nn.BatchNorm1d(eps=1e-5): 1 / eps, and eps in units of 1/Unit^2
EpsInv == 100000
Eps == RDiv(Unit * Unit, EpsInv)

Betas == AsTuple([t \in 1..NumSteps |-> Beta1 + ((BetaT - Beta1) * (t - 1)) \div Max(NumSteps - 1, 1)])

BNKeys(p) == {p \o ".weight", p \o ".bias", p \o ".running_mean", p \o ".running_var", p \o ".num_batches_tracked"}
RunningStatKeys == {p \o s : p \in {"BN1", "BN2"}, s \in {".running_mean", ".running_var", ".num_batches_tracked"}}
ScheduleKeys == {"diffusion.var_sched.betas"}
ModelKeys == {"FC1.weight", "FC1.bias", "FC2.weight", "FC2.bias"} \cup BNKeys("BN1") \cup BNKeys("BN2") \cup {"MHSA.in_proj_weight", "MHSA.in_proj_bias", "MHSA.out_proj.weight", "MHSA.out_proj.bias"} \cup ScheduleKeys
ParamKeys == ModelKeys \ (RunningStatKeys \cup ScheduleKeys)

\* The state_dict right after __init__, one draw of the initialisers.
\* nn.Linear draws weight and bias from U(-1/sqrt(in), 1/sqrt(in)): below 0.5
\* in size for FC1 (in = 4), below 1 for FC2 (in = 1).  BatchNorm1d starts with
\* weight 1, bias 0, running_mean 0, running_var 1, num_batches_tracked 0.
\* MultiheadAttention draws in_proj_weight from U(-b, b), b = sqrt(6 / (2 + 6))
\* = 0.866, and out_proj.weight from U(-1/sqrt(2), 1/sqrt(2)); its biases are 0.
InitStateDict ==
  "FC1.weight" :> << <<300, -200, 100, 100>> >> @@ "FC1.bias" :> <<-100>> @@
  "BN1.weight" :> <<Unit>> @@ "BN1.bias" :> <<0>> @@
  "BN1.running_mean" :> <<0>> @@ "BN1.running_var" :> <<Unit>> @@ "BN1.num_batches_tracked" :> 0 @@
  "FC2.weight" :> << <<700>>, <<-600>> >> @@ "FC2.bias" :> <<200, -300>> @@
  "BN2.weight" :> <<Unit, Unit>> @@ "BN2.bias" :> <<0, 0>> @@
  "BN2.running_mean" :> <<0, 0>> @@ "BN2.running_var" :> <<Unit, Unit>> @@ "BN2.num_batches_tracked" :> 0 @@
  "MHSA.in_proj_weight" :> << <<500, -300>>, <<200, 800>>, <<-400, 600>>, <<700, 100>>, <<800, -500>>, <<300, 700>> >> @@
  "MHSA.in_proj_bias" :> <<0, 0, 0, 0, 0, 0>> @@
  "MHSA.out_proj.weight" :> << <<600, -400>>, <<-200, 500>> >> @@ "MHSA.out_proj.bias" :> <<0, 0>> @@
  "diffusion.var_sched.betas" :> Betas

\* ------------------------------------------------------------------ layers
\* nn.Linear on a batch (B, in) -> (B, out)
Linear(s, p, xs) == AsTuple([i \in 1..Len(xs) |-> VecAdd(MatVec(s[p \o ".weight"], xs[i]), s[p \o ".bias"])])

Column(xs, c) == AsTuple([i \in 1..Len(xs) |-> xs[i][c]])
SumSq(s) == SumSeq(AsTuple([i \in 1..Len(s) |-> s[i] * s[i]]))
\* x_i - batch mean
Deviations(col) == AsTuple([i \in 1..Len(col) |-> col[i] - RDiv(SumSeq(col), Len(col))])

\* Normalisation of one channel with the batch statistics (training mode):
\* (x - mean) / sqrt(biased var + eps) * weight + bias.
BNTrainNorm(d, w, b, var) == AsTuple([i \in 1..Len(d) |-> RDiv(d[i] * w, RSqrt(var + Eps)) + b])
BNTrainChannel(col, w, b) ==
  BNTrainNorm(Deviations(col), w, b, RDiv(SumSq(Deviations(col)), Len(col)))

\* Normalisation of one channel with the running statistics (inference mode):
\* (x - running_mean) / sqrt(running_var + eps) * weight + bias.
BNEvalChannel(col, w, b, rm, rv) ==
  AsTuple([i \in 1..Len(col) |-> RDiv((col[i] - rm) * w, RSqrt(rv * Unit + Eps)) + b])

\* running = (1 - momentum) * running + momentum * batch statistic, momentum 0.1;
\* the running variance takes the unbiased batch variance.
RunningMean(col, rm) == RDiv((10 - Momentum10) * Len(col) * rm + Momentum10 * SumSeq(col), 10 * Len(col))
RunningVar(col, rv) ==
  RDiv((10 - Momentum10) * rv * Max(Len(col) - 1, 1) * Unit + Momentum10 * SumSq(Deviations(col)),
       10 * Max(Len(col) - 1, 1) * Unit)

MutBNTracksInEval(train) == TRUE

\* Whether this forward pass updates the running statistics.
BNTracks(train) == train

\* nn.BatchNorm1d.forward on (B, C): [sd, exc, out].  In training mode
\* num_batches_tracked is incremented first, a batch of one value per channel is
\* refused (ValueError), otherwise the batch statistics normalise and the running
\* statistics move; in inference mode the running statistics normalise and
\* nothing is written.
BatchNorm(s, p, train, xs) ==
  LET C == Len(s[p \o ".weight"])
      B == Len(xs)
      w == s[p \o ".weight"]
      b == s[p \o ".bias"]
      rm == s[p \o ".running_mean"]
      rv == s[p \o ".running_var"]
      nbt == p \o ".num_batches_tracked"
      counted == IF BNTracks(train) THEN [s EXCEPT ![nbt] = @ + 1] ELSE s
      chans == AsTuple([c \in 1..C |->
                  IF train THEN BNTrainChannel(Column(xs, c), w[c], b[c])
                  ELSE BNEvalChannel(Column(xs, c), w[c], b[c], rm[c], rv[c])])
      out == AsTuple([i \in 1..B |-> AsTuple([c \in 1..C |-> chans[c][i]])])
      moved == [counted EXCEPT
                  ![p \o ".running_mean"] = AsTuple([c \in 1..C |-> RunningMean(Column(xs, c), rm[c])]),
                  ![p \o ".running_var"] = AsTuple([c \in 1..C |-> RunningVar(Column(xs, c), rv[c])])]
  IN IF train /\ B <= 1
       THEN [sd |-> counted, exc |-> "ValueError", out |-> <<>>]
       ELSE [sd |-> IF BNTracks(train) THEN moved ELSE s, exc |-> NoExc, out |-> out]

\* z.unsqueeze(1): (B, D) -> (B, 1, D)
Unsqueeze1(xs) == AsTuple([i \in 1..Len(xs) |-> <<xs[i]>>])

\* e^(-d) for 0 <= d <= 1 in units of 2^-ExpBits: the power series
\* 1 - d + d^2/2! - ..., summed from term number k on until a term rounds to 0.
RECURSIVE ExpSeries(_, _, _)
ExpSeries(term, k, d) ==
  IF term = 0 THEN 0 ELSE term + ExpSeries(-RDiv(term * d, k * Unit), k + 1, d)
\* e^(-d) for d >= 0 in units of 2^-ExpBits: e^(-1) times e^(-(d - 1)) above 1,
\* and 0 where e^(-d) is below the resolution.
RECURSIVE ExpNeg(_)
ExpNeg(d) ==
  IF d > ExpBits * Unit THEN 0
  ELSE IF d <= Unit THEN ExpSeries(Pow2(ExpBits), 1, d)
  ELSE RDiv(ExpNeg(d - Unit) * ExpSeries(Pow2(ExpBits), 1, Unit), Pow2(ExpBits))

\* Softmax numerators of one row of scores: e^(score - max), in units of 2^-ExpBits.
SoftmaxNum(scores) ==
  LET m == MaxSeq(scores)
  IN AsTuple([j \in 1..Len(scores) |-> ExpNeg(m - scores[j])])

\* Scaled dot-product attention of one head over a token sequence: row i of the
\* result is the softmax(q_i . k_j / sqrt(head_dim))-weighted mean of the v_j;
\* the weights are in units of 2^-ExpBits.
HeadAttention(q, k, v) ==
  LET L == Len(q)
      num == AsTuple([i \in 1..L |->
               SoftmaxNum(AsTuple([j \in 1..L |->
                  RDiv(Dot(q[i], k[j]), RSqrt(HeadDim * Unit * Unit))]))])
  IN [out |-> AsTuple([i \in 1..L |-> AsTuple([c \in 1..HeadDim |->
                 RDiv(SumSeq(AsTuple([j \in 1..L |-> num[i][j] * v[j][c]])), SumSeq(num[i]))])]),
      weights |-> AsTuple([i \in 1..L |-> AsTuple([j \in 1..L |-> RDiv(Pow2(ExpBits) * num[i][j], SumSeq(num[i]))])])]

RECURSIVE Concat(_)
Concat(ss) == IF ss = <<>> THEN <<>> ELSE ss[1] \o Concat(Tail(ss))

\* Which tokens one forward call of the attention puts in the same sequence:
\* batch_first is False, so an input (d0, d1, E) is d0 tokens for each of d1
\* batch columns.  Token t of column n is x[t][n].
SequenceOf(x, n) == AsTuple([t \in 1..Len(x) |-> x[t][n]])

\* The packed input projection: chunk a (0 = query, 1 = key, 2 = value) of
\* in_proj_weight / in_proj_bias applied to one token.
InProj(s, tok, a) ==
  VecAdd(MatVec(SubSeq(s["MHSA.in_proj_weight"], a * LatentDim + 1, (a + 1) * LatentDim), tok),
         SubSeq(s["MHSA.in_proj_bias"], a * LatentDim + 1, (a + 1) * LatentDim))
HeadSlice(vec, h) == SubSeq(vec, (h - 1) * HeadDim + 1, h * HeadDim)

\* All heads over one token sequence, then the output projection.
AttendSequence(s, toks) ==
  LET T == Len(toks)
      proj(a, h) == AsTuple([t \in 1..T |-> HeadSlice(InProj(s, toks[t], a), h)])
      heads == AsTuple([h \in 1..NumHeads |-> HeadAttention(proj(0, h), proj(1, h), proj(2, h))])
  IN [out |-> AsTuple([t \in 1..T |->
                 VecAdd(MatVec(s["MHSA.out_proj.weight"], Concat(AsTuple([h \in 1..NumHeads |-> heads[h].out[t]]))),
                        s["MHSA.out_proj.bias"])]),
      weights |-> AsTuple([t \in 1..T |-> AsTuple([j \in 1..T |->
                     RDiv(Unit * SumSeq(AsTuple([h \in 1..NumHeads |-> heads[h].weights[t][j]])),
                          NumHeads * Pow2(ExpBits))])])]

\* nn.MultiheadAttention.forward(x, x, x) on x of shape (L, N, E): the pair
\* (attn_output (L, N, E), attn_output_weights averaged over the heads (N, L, L)).
MultiheadAttention(s, x) ==
  LET L == Len(x)
      N == Len(x[1])
      cols == AsTuple([n \in 1..N |-> AttendSequence(s, SequenceOf(x, n))])
  IN PyTuple(<<Tensor(AsTuple([t \in 1..L |-> AsTuple([n \in 1..N |-> cols[n].out[t]])])),
               Tensor(AsTuple([n \in 1..N |-> cols[n].weights]))>>)

\* z.squeeze(1): a Tensor method; a tuple has no attribute `squeeze`.
Squeeze1(v) ==
  IF v.kind = "Tensor"
    THEN [exc |-> NoExc, val |-> Tensor(AsTuple([i \in 1..Len(v.data) |-> v.data[i][1]]))]
    ELSE [exc |-> "AttributeError", val |-> None]

\* torch.cat([z, view_angle, yaw], dim=1)
CatPose(batch) == AsTuple([i \in 1..Len(batch) |-> batch[i].z \o <<batch[i].view_angle>> \o <<batch[i].yaw>>])

\* Lines 62-64 / 102-104, given the output of BN2 (line 61 / 101).
NoContext(bn, step) == [sd |-> bn.sd, exc |-> bn.exc, step |-> step, h |-> None, mhsa |-> None, z |-> None]
AfterSqueeze(bn2, att, sq) ==
  [sd |-> bn2.sd, exc |-> sq.exc, step |-> IF sq.exc = NoExc THEN "done" ELSE "squeeze",
   h |-> Tensor(bn2.out), mhsa |-> att, z |-> sq.val]
AfterMHSA(bn2, att) == AfterSqueeze(bn2, att, Squeeze1(att))
AfterBN2(bn2) ==
  IF bn2.exc # NoExc THEN NoContext(bn2, "BN2")
  ELSE AfterMHSA(bn2, MultiheadAttention(bn2.sd, Unsqueeze1(bn2.out)))
\* Line 61 / 101, given the output of BN1 (line 60 / 100).
AfterBN1(train, bn1) ==
  IF bn1.exc # NoExc THEN NoContext(bn1, "BN1")
  ELSE AfterBN2(BatchNorm(bn1.sd, "BN2", train, Linear(bn1.sd, "FC2", bn1.out)))

\* Lines 59-64 / 99-104: the pose-conditioning block.  [sd, exc, step, h, mhsa, z]
ConditioningBlock(s, train, batch) ==
  AfterBN1(train, BatchNorm(s, "BN1", train, Linear(s, "FC1", CatPose(batch))))

\* ------------------------------------------------- external collaborators
\* What the encoder, the reparameterisation, the flow and the decoder hand back
\* is drawn from these sets: the sampled latent (line 56) or the flow's reverse
\* output (line 98), and the per-sample entropy, the base log-density, the
\* log-determinant and the decoder's scalar loss.
SampleInputs == {[z |-> <<0, 0>>, view_angle |-> -Unit, yaw |-> Unit],
                 [z |-> <<Unit, -Unit>>, view_angle |-> Unit, yaw |-> -Unit]}
Batches == UNION {[1..n -> SampleInputs] : n \in 1..MaxBatch}
KLWeights == {1, 2}
Collaborators == {[entropy |-> 3, log_pw |-> -4, delta_log_pw |-> 1, neg_elbo |-> 5]}

Mean(s) == RDiv(SumSeq(s), Len(s))

\* Lines 72, 78-81.
LossCompose(kl_weight, entropy, log_pw, delta_log_pw, neg_elbo) ==
  LET log_pz == AsTuple([i \in 1..Len(log_pw) |-> log_pw[i] - delta_log_pw[i]])
      loss_entropy == -Mean(entropy)
      loss_prior == -Mean(log_pz)
  IN kl_weight * (loss_entropy + loss_prior) + neg_elbo

\* DiffusionPoint.sample: the reverse chain t = T, ..., 1, noise added for t > 1.
ReverseSteps == AsTuple([i \in 1..NumSteps |-> NumSteps + 1 - i])
DiffusionSample(context) ==
  [steps |-> ReverseSteps, noised |-> {t \in 1..NumSteps : t > 1}, final |-> "x_0", context |-> context]

NoCall ==
  [op |-> "none", training |-> FALSE, batch |-> <<>>, kl_weight |-> 0, ext |-> None, before |-> <<>>,
   exc |-> NoExc, step |-> "none", h |-> None, mhsa |-> None, flow_in |-> None, context |-> None,
   steps |-> <<>>, noised |-> {}, final |-> "none", ret |-> None]

\* The record of a call whose conditioning block gave cb.
CallRecord(op, s, train, batch, kl_weight, ext, cb) ==
  [NoCall EXCEPT !.op = op, !.training = train, !.batch = batch, !.kl_weight = kl_weight,
                 !.ext = ext, !.before = s, !.exc = cb.exc, !.step = cb.step, !.h = cb.h,
                 !.mhsa = cb.mhsa]
Const(B, v) == AsTuple([i \in 1..B |-> v])

\* Lines 66-91, reached when lines 59-64 did not raise.
GetLossTail(call, batch, kl_weight, ext, cb) ==
  [call EXCEPT !.flow_in = cb.z, !.context = cb.z,
               !.ret = Tensor(LossCompose(kl_weight, Const(Len(batch), ext.entropy),
                                          Const(Len(batch), ext.log_pw),
                                          Const(Len(batch), ext.delta_log_pw), ext.neg_elbo))]
GetLossFrom(call, batch, kl_weight, ext, cb) ==
  [sd |-> cb.sd,
   call |-> IF cb.exc # NoExc THEN call ELSE GetLossTail(call, batch, kl_weight, ext, cb)]
GetLossWith(s, train, batch, kl_weight, ext, cb) ==
  GetLossFrom(CallRecord("get_loss", s, train, batch, kl_weight, ext, cb), batch, kl_weight, ext, cb)

\* get_loss, lines 45-91: what the call leaves behind.
GetLossRun(s, train, batch, kl_weight, ext) ==
  GetLossWith(s, train, batch, kl_weight, ext, ConditioningBlock(s, train, batch))

\* Lines 106-107, reached when lines 99-104 did not raise.
SampleTail(call, dec) ==
  [call EXCEPT !.context = dec.context, !.steps = dec.steps, !.noised = dec.noised,
               !.final = dec.final, !.ret = Tensor(dec.final)]
SampleFrom(call, cb) ==
  [sd |-> cb.sd,
   call |-> IF cb.exc # NoExc THEN call ELSE SampleTail(call, DiffusionSample(cb.z))]
SampleWith(s, train, batch, cb) ==
  SampleFrom(CallRecord("sample", s, train, batch, 0, None, cb), cb)

\* sample, lines 93-107.
SampleRun(s, train, batch) == SampleWith(s, train, batch, ConditioningBlock(s, train, batch))

NoLoad == [incoming |-> <<>>, before |-> <<>>, exc |-> NoExc, done |-> FALSE]

\* --------------------------------------------------------------- SpecModel
InitModel ==
  /\ sd = InitStateDict
  /\ training = TRUE
  /\ calls = 0
  /\ last = NoCall
  /\ loaded = NoLoad
  /\ DataFresh

\* Module.train() / Module.eval()
Train ==
  /\ training' = TRUE
  /\ UNCHANGED <<sd, calls, last, loaded, dataVars>>

Eval ==
  /\ training' = FALSE
  /\ UNCHANGED <<sd, calls, last, loaded, dataVars>>

GetLoss ==
  /\ calls < MaxCalls
  /\ \E batch \in Batches, kl_weight \in KLWeights, ext \in Collaborators :
       \E r \in {GetLossRun(sd, training, batch, kl_weight, ext)} :
          /\ sd' = r.sd
          /\ last' = r.call
  /\ calls' = calls + 1
  /\ UNCHANGED <<training, loaded, dataVars>>

Sample ==
  /\ calls < MaxCalls
  /\ \E batch \in Batches :
       \E r \in {SampleRun(sd, training, batch)} :
          /\ sd' = r.sd
          /\ last' = r.call
  /\ calls' = calls + 1
  /\ UNCHANGED <<training, loaded, dataVars>>

NextModel == Train \/ Eval \/ GetLoss \/ Sample

SpecModel == InitModel /\ [][NextModel]_vars

\* ---------------------------------------------------------------- SpecLoad
\* Another checkpoint of the same architecture.
OtherStateDict ==
  "FC1.weight" :> << <<Unit, 0, -Unit, 2 * Unit>> >> @@ "FC1.bias" :> <<2 * Unit>> @@
  "BN1.weight" :> <<2 * Unit>> @@ "BN1.bias" :> <<Unit>> @@
  "BN1.running_mean" :> <<3 * Unit>> @@ "BN1.running_var" :> <<4 * Unit>> @@ "BN1.num_batches_tracked" :> 7 @@
  "FC2.weight" :> << <<0>>, <<3 * Unit>> >> @@ "FC2.bias" :> <<Unit, Unit>> @@
  "BN2.weight" :> <<Unit, 2 * Unit>> @@ "BN2.bias" :> <<Unit, 0>> @@
  "BN2.running_mean" :> <<Unit, -Unit>> @@ "BN2.running_var" :> <<2 * Unit, 9 * Unit>> @@ "BN2.num_batches_tracked" :> 7 @@
  "MHSA.in_proj_weight" :> << <<0, Unit>>, <<Unit, 0>>, <<Unit, 0>>, <<Unit, Unit>>, <<0, 2 * Unit>>, <<Unit, -Unit>> >> @@
  "MHSA.in_proj_bias" :> <<Unit, 0, 0, Unit, 0, 0>> @@
  "MHSA.out_proj.weight" :> << <<0, Unit>>, <<Unit, 0>> >> @@ "MHSA.out_proj.bias" :> <<Unit, Unit>> @@
  "diffusion.var_sched.betas" :> Betas

\* A checkpoint of a wider architecture: FC1.weight is (2, 2) where this model
\* has (1, 4), FC2.bias is (1,) where this model has (2,).
WiderStateDict ==
  [OtherStateDict EXCEPT !["FC1.weight"] = << <<Unit, 2 * Unit>>, <<3 * Unit, 4 * Unit>> >>,
                         !["FC2.bias"] = <<7 * Unit>>]

\* A value of a state mapping: a tensor with its shape, or a Python number.
TensorOf(shape, data) == [kind |-> "Tensor", shape |-> shape, data |-> data]
PyFloat(x) == [kind |-> "float", data |-> x]

\* Tensor.shape of an entry of this architecture written as nested tuples: the
\* counters are 0-d, the weights of the linear maps 2-d, every other parameter
\* and buffer 1-d.
ShapeOf(k, v) ==
  IF k \in {"BN1.num_batches_tracked", "BN2.num_batches_tracked"} THEN <<>>
  ELSE IF k \in {"FC1.weight", "FC2.weight", "MHSA.in_proj_weight", "MHSA.out_proj.weight"}
       THEN <<Len(v), Len(v[1])>>
  ELSE <<Len(v)>>

\* Module.state_dict(): name -> tensor
StateDict(s) == [k \in DOMAIN s |-> TensorOf(ShapeOf(k, s[k]), s[k])]

\* A checkpoint written by an old version: the counters are 1-d tensors, of
\* one and of two elements.
LegacyStateDict ==
  [StateDict(OtherStateDict) EXCEPT !["BN1.num_batches_tracked"] = TensorOf(<<1>>, <<7>>),
                                    !["BN2.num_batches_tracked"] = TensorOf(<<2>>, <<7, 8>>)]
\* A damaged checkpoint: an empty 1-d tensor for a counter, a Python float for
\* a bias.
BrokenStateDict ==
  [StateDict(OtherStateDict) EXCEPT !["BN1.num_batches_tracked"] = TensorOf(<<0>>, <<>>),
                                    !["FC2.bias"] = PyFloat(Unit)]

\* The incoming mappings: a checkpoint cut down to some of its keys (any subset
\* of LoadKeys, or all of them), with or without keys this model does not have.
Checkpoints ==
  <<StateDict(InitStateDict), StateDict(OtherStateDict), StateDict(WiderStateDict),
    LegacyStateDict, BrokenStateDict>>
LoadKeys == {"FC1.weight", "BN1.num_batches_tracked", "FC2.bias"}
UnknownKeys == {"decoder.old.weight", "head.bias"}
UnknownValue == TensorOf(<<1>>, <<9 * Unit>>)
Restrict(f, K) == [k \in K |-> f[k]]
Incoming(c, K, U) == [k \in K \cup U |-> IF k \in K THEN c[k] ELSE UnknownValue]

MutFilterUnknown(state_dict, model_state_dict) ==
  Restrict(state_dict, {k \in DOMAIN state_dict : k \notin DOMAIN model_state_dict})

\* line 37: {k: v for k, v in state_dict.items() if k in model_state_dict}
FilterStateDict(state_dict, model_state_dict) ==
  Restrict(state_dict, {k \in DOMAIN state_dict : k \in DOMAIN model_state_dict})

\* line 40: dict.update
Update(d, e) == [k \in DOMAIN d \cup DOMAIN e |-> IF k \in DOMAIN e THEN e[k] ELSE d[k]]

\* The order in which load_state_dict visits the entries: the submodules in
\* the order __init__ registers them, in each its parameters, then its buffers.
LoadOrder ==
  <<"FC1.weight", "FC1.bias",
    "BN1.weight", "BN1.bias", "BN1.running_mean", "BN1.running_var", "BN1.num_batches_tracked",
    "FC2.weight", "FC2.bias",
    "BN2.weight", "BN2.bias", "BN2.running_mean", "BN2.running_var", "BN2.num_batches_tracked",
    "MHSA.in_proj_weight", "MHSA.in_proj_bias", "MHSA.out_proj.weight", "MHSA.out_proj.bias",
    "diffusion.var_sched.betas">>
Position(k) == CHOOSE n \in 1..Len(LoadOrder) : LoadOrder[n] = k

\* Module._load_from_state_dict, backward compatibility: a 0-d entry given a
\* 1-d tensor takes input_param[0].
InputParam(param_shape, v) ==
  IF param_shape = <<>> /\ Len(v.shape) = 1 THEN TensorOf(<<>>, v.data[1]) ELSE v
\* The entries at which input_param[0] raises IndexError: a 0-d entry given an
\* empty 1-d tensor.
OutOfBounds(s, d) ==
  {k \in DOMAIN s \cap DOMAIN d :
     d[k].kind = "Tensor" /\ ShapeOf(k, s[k]) = <<>> /\ d[k].shape = <<0>>}
\* The entries visited before the first IndexError, if there is one.
Visited(s, d, out_of_bounds) ==
  {k \in DOMAIN s \cap DOMAIN d : \A e \in out_of_bounds : Position(k) < Position(e)}
\* The visited entries that are reported and skipped: the value is not a
\* tensor, or its shape is not the entry's (size mismatch).
Refused(s, d, visited) ==
  {k \in visited :
     d[k].kind # "Tensor" \/ InputParam(ShapeOf(k, s[k]), d[k]).shape # ShapeOf(k, s[k])}

\* Module.load_state_dict(d, strict): the entries of the model found in d are
\* visited in order.  A value that is not a tensor, or a tensor of another
\* shape than the entry, is reported and skipped; any other is copied in.
\* Keys of the model not in d are missing, keys of d not in the model are
\* unexpected.  After all entries are done, a reported entry raises
\* RuntimeError whatever strict is, missing and unexpected keys only when
\* strict.  An IndexError at an entry ends the call there.
LoadStateDict(s, d, strict) ==
  LET out_of_bounds == OutOfBounds(s, d)
      visited == Visited(s, d, out_of_bounds)
      error_msgs == Refused(s, d, visited)
  IN [sd |-> [k \in DOMAIN s |->
                IF k \in visited \ error_msgs
                THEN InputParam(ShapeOf(k, s[k]), d[k]).data ELSE s[k]],
      missing |-> DOMAIN s \ DOMAIN d, unexpected |-> DOMAIN d \ DOMAIN s,
      exc |-> IF out_of_bounds # {} THEN "IndexError"
              ELSE IF error_msgs # {} \/ (strict /\ DOMAIN s # DOMAIN d) THEN "RuntimeError"
              ELSE NoExc]

\* load_partial_state_dict, lines 35-43
LoadPartialRun(s, state_dict) ==
  LET model_state_dict == StateDict(s)
      filtered_state_dict == FilterStateDict(state_dict, model_state_dict)
  IN LoadStateDict(s, Update(model_state_dict, filtered_state_dict), FALSE)

InitLoad ==
  /\ sd = InitStateDict
  /\ training = TRUE
  /\ calls = 0
  /\ last = NoCall
  /\ loaded = NoLoad
  /\ DataFresh

LoadPartialStateDict ==
  /\ \E c \in 1..Len(Checkpoints), K \in (SUBSET LoadKeys) \cup {ModelKeys}, U \in {{}, UnknownKeys} :
       \E state_dict \in {Incoming(Checkpoints[c], K, U)} :
       \E r \in {LoadPartialRun(sd, state_dict)} :
          /\ sd' = r.sd
          /\ loaded' = [incoming |-> state_dict, before |-> sd, exc |-> r.exc, done |-> TRUE]
  /\ UNCHANGED <<training, calls, last, dataVars>>

NextLoad == LoadPartialStateDict

SpecLoad == InitLoad /\ [][NextLoad]_vars

\* ------------------------------------------------------- dataset: files
\* Tensor data are flat row-major tuples on the grid of 1/PcUnit; an (N, 3)
\* point cloud is 3N numbers.  Angles are multiples of pi/Pi, and an angle
\* divided by np.pi is that many times 1/Pi.
PcUnit == 100
HalfPi == 2
Pi == 2 * HalfPi

\* Rows of synsetid_to_cate (lines 12-34), in the order of the dict.
SynsetTable == << <<"02691156", "airplane">>, <<"02933112", "cabinet">>, <<"02747177", "can">> >>
\* The same ids in the order of Python's string comparison.
SynsetidsAscending == <<"02691156", "02747177", "02933112">>
SynsetRank(id) == CHOOSE r \in 1..Len(SynsetidsAscending) : SynsetidsAscending[r] = id
CateNames == {SynsetTable[r][2] : r \in 1..Len(SynsetTable)}
\* cate_to_synsetid (line 35)
CateToSynsetid(name) == SynsetTable[CHOOSE r \in 1..Len(SynsetTable) : SynsetTable[r][2] = name][1]
SynsetidToCate(id) == SynsetTable[CHOOSE r \in 1..Len(SynsetTable) : SynsetTable[r][1] = id][2]
AllCates == AsTuple([r \in 1..Len(SynsetTable) |-> SynsetTable[r][2]])

Splits == <<"train", "val", "test">>
ScaleModes == {"global_unit", "shape_unit", "shape_bbox", "shape_half", "shape_34"}
PyNone == "<None>"

\* The HDF5 file: f[synsetid][split] is a (B, N, 3) array, here N = 2.
H5File ==
  "02691156" :> [train |-> << <<0, 0, 0, 8, 4, 12>>, <<2, 2, 2, 16, 8, 4>> >>,
                 val |-> << <<2, 0, 2, 6, 12, 2>> >>,
                 test |-> << <<0, 8, 0, 12, 0, 4>> >>] @@
  "02933112" :> [train |-> << <<20, 0, 0, 0, 20, 8>> >>,
                 val |-> << <<0, 0, 4, 16, 16, 4>> >>,
                 test |-> << <<8, 8, 0, 0, 16, 16>> >>] @@
  "02747177" :> [train |-> << <<4, 16, 4, 12, 0, 12>> >>,
                 val |-> << <<6, 2, 0, 10, 14, 8>> >>,
                 test |-> << <<2, 6, 10, 8, 0, 4>> >>]

\* The pickled file: data[cls][split] is a list of objects.
Obj(points, position, yaw, view_angle) ==
  [points |-> points, box |-> [position |-> position, yaw |-> yaw, view_angle |-> view_angle]]
PklFile ==
  "Car" :> [train |-> << Obj(<<10, 10, 0, 14, 12, 2>>, <<12, 10, 1>>, 5, 1),
                         Obj(<<0, 4, 0, 4, 0, 2, 2, 2, 4>>, <<2, 2, 2>>, -7, 5) >>,
            val |-> << Obj(<<6, 6, 0, 10, 8, 4>>, <<8, 6, 2>>, 0, -3) >>,
            test |-> << Obj(<<2, 0, 2, 6, 4, 0>>, <<4, 2, 0>>, 12, -6) >>] @@
  "Pedestrian" :> [train |-> << Obj(<<0, 0, 0, 2, 2, 6>>, <<1, 1, 2>>, 2, 0) >>,
                   val |-> << Obj(<<4, 4, 0, 6, 6, 8>>, <<5, 5, 4>>, -2, 4) >>,
                   test |-> << >>]

\* torch.from_numpy / torch.Tensor of file values
FromNumpy(v) == AsTuple([k \in 1..Len(v) |-> PcUnit * v[k]])

\* ---------------------------------------------------- dataset: tensor math
NumPoints(pc) == Len(pc) \div 3
Axis(k) == ((k - 1) % 3) + 1
Col(pc, j) == AsTuple([i \in 1..NumPoints(pc) |-> pc[3 * (i - 1) + j]])
\* pc.mean(dim=0)
ColMean(pc) == AsTuple([j \in 1..3 |-> RDiv(SumSeq(Col(pc, j)), NumPoints(pc))])
MinSeq(s) == CHOOSE m \in {s[i] : i \in 1..Len(s)} : \A i \in 1..Len(s) : m <= s[i]
\* pc.max(dim=0) / pc.min(dim=0)
ColMax(pc) == AsTuple([j \in 1..3 |-> MaxSeq(Col(pc, j))])
ColMin(pc) == AsTuple([j \in 1..3 |-> MinSeq(Col(pc, j))])
\* v.std(): the unbiased standard deviation
StdAbout(v, m) ==
  ISqrt(RDiv(SumSeq(AsTuple([i \in 1..Len(v) |-> (v[i] - m) * (v[i] - m)])), Len(v) - 1))
MeanFlat(v) == RDiv(SumSeq(v), Len(v))
StdFlat(v) == StdAbout(v, MeanFlat(v))
\* (pc - shift) / scale with shift (1, 3) and scale (1, 1)
Normalise(pc, shift, scale) ==
  AsTuple([k \in 1..Len(pc) |-> RDiv(PcUnit * (pc[k] - shift[Axis(k)]), scale)])
\* pc - pos
Recentre(pc, pos) == AsTuple([k \in 1..Len(pc) |-> pc[k] - pos[Axis(k)]])
\* torch.norm(pc, dim=1)
RowNorm(pc) ==
  AsTuple([i \in 1..NumPoints(pc) |->
     ISqrt(pc[3 * i - 2] * pc[3 * i - 2] + pc[3 * i - 1] * pc[3 * i - 1] + pc[3 * i] * pc[3 * i])])
Zeros(n) == AsTuple([k \in 1..n |-> 0])

\* The branches on scale_mode of lines 103-122 / 240-259: [shift, scale,
\* shared]; shared says that scale is a view of stats['std'] (reshape).
Centred(pc, scale, shared) == [shift |-> ColMean(pc), scale |-> scale, shared |-> shared]
BBox(pc_max, pc_min) ==
  [shift |-> AsTuple([j \in 1..3 |-> RDiv(pc_min[j] + pc_max[j], 2)]),
   scale |-> RDiv(MaxSeq(AsTuple([j \in 1..3 |-> pc_max[j] - pc_min[j]])), 2),
   shared |-> FALSE]
ShiftScale(scale_mode, pc, std) ==
  IF scale_mode = "global_unit" THEN Centred(pc, std, TRUE)
  ELSE IF scale_mode = "shape_unit" THEN Centred(pc, StdFlat(pc), FALSE)
  ELSE IF scale_mode = "shape_half" THEN Centred(pc, 2 * StdFlat(pc), FALSE)
  ELSE IF scale_mode = "shape_34" THEN Centred(pc, RDiv(4 * StdFlat(pc), 3), FALSE)
  ELSE IF scale_mode = "shape_bbox" THEN BBox(ColMax(pc), ColMin(pc))
  ELSE [shift |-> Zeros(3), scale |-> PcUnit, shared |-> FALSE]

\* list.sort(key=...) is stable: the permutation that sorts the keys.
SortPosition(keys, i) ==
  Cardinality({j \in 1..Len(keys) : keys[j] < keys[i] \/ (keys[j] = keys[i] /\ j < i)}) + 1
SortPermutation(keys) ==
  AsTuple([k \in 1..Len(keys) |-> CHOOSE i \in 1..Len(keys) : SortPosition(keys, i) = k])
Permute(s, p) == AsTuple([k \in 1..Len(p) |-> s[p[k]]])

\* random.Random(2020).shuffle(x): for i = n-1 down to 1, j = randbelow(i+1),
\* swap x[i] and x[j].  Row n lists the j drawn by a generator seeded with 2020.
Seed2020Draws ==
  <<
     <<>>,
     <<0>>,
     <<2, 0>>,
     <<1, 2, 1>>,
     <<4, 1, 2, 1>>,
     <<4, 4, 1, 2, 1>>,
     <<4, 4, 1, 3, 1, 1>>,
     <<2, 5, 3, 3, 3, 1, 1>>,
     <<2, 7, 3, 3, 2, 3, 2, 0>>,
     <<9, 2, 7, 3, 3, 2, 3, 2, 0>>,
     <<9, 9, 2, 7, 3, 3, 2, 3, 2, 0>>,
     <<9, 9, 2, 7, 7, 3, 2, 3, 1, 2, 0>>,
     <<9, 9, 2, 7, 7, 7, 2, 3, 4, 1, 2, 0>>,
     <<9, 9, 2, 10, 7, 7, 7, 2, 3, 4, 1, 2, 0>>,
     <<9, 9, 2, 10, 7, 7, 7, 5, 3, 4, 1, 0, 1, 0>>,
     <<5, 10, 12, 7, 7, 7, 5, 6, 2, 4, 0, 3, 1, 0, 1>>,
     <<5, 14, 7, 7, 5, 6, 8, 2, 1, 7, 6, 1, 1, 3, 2, 0>>,
     <<5, 14, 14, 7, 5, 6, 8, 2, 9, 1, 7, 6, 1, 1, 3, 2, 0>>,
     <<5, 14, 14, 15, 5, 6, 8, 2, 9, 1, 7, 3, 1, 3, 1, 1, 1, 1>>,
     <<19, 5, 14, 14, 15, 5, 6, 8, 2, 9, 1, 7, 3, 1, 3, 1, 1, 1, 1>>,
     <<19, 19, 5, 14, 14, 15, 5, 6, 8, 2, 9, 1, 7, 3, 1, 3, 1, 1, 1, 1>>,
     <<19, 19, 5, 14, 14, 15, 11, 14, 6, 8, 2, 9, 1, 7, 3, 1, 3, 1, 1, 1, 1>>,
     <<19, 19, 5, 14, 14, 15, 11, 13, 8, 2, 9, 1, 7, 3, 3, 6, 5, 1, 4, 1, 1, 1>>,
     <<19, 19, 5, 14, 14, 15, 11, 13, 5, 9, 1, 7, 3, 3, 6, 3, 2, 3, 3, 0, 1, 1, 1>>,
     <<19, 19, 5, 21, 14, 14, 15, 11, 13, 5, 9, 1, 7, 3, 3, 6, 3, 2, 3, 3, 0, 1, 1, 1>>,
     <<19, 19, 5, 21, 14, 14, 15, 11, 13, 5, 2, 7, 12, 3, 3, 6, 3, 2, 7, 3, 0, 1, 3, 2, 1>>,
     <<19, 19, 5, 21, 14, 14, 15, 11, 13, 17, 5, 2, 7, 12, 3, 3, 6, 3, 2, 7, 3, 0, 1, 3, 2,
       1>>,
     <<19, 19, 5, 21, 14, 14, 15, 11, 13, 17, 5, 2, 14, 12, 3, 3, 6, 10, 3, 2, 7, 3, 0, 1,
       3, 2, 1>>,
     <<19, 19, 5, 21, 24, 14, 14, 15, 11, 13, 17, 5, 2, 14, 12, 3, 3, 6, 10, 3, 2, 7, 3, 0,
       1, 3, 2, 1>>,
     <<19, 19, 5, 21, 24, 14, 14, 15, 11, 13, 17, 5, 2, 14, 7, 14, 3, 6, 10, 3, 9, 2, 7, 3,
       0, 1, 3, 2, 1>>,
     <<19, 19, 5, 21, 24, 14, 14, 15, 11, 13, 17, 5, 2, 14, 7, 6, 6, 10, 3, 9, 2, 7, 7, 1,
       5, 5, 1, 3, 2, 1>>,
     <<11, 21, 24, 14, 14, 15, 11, 13, 17, 5, 19, 2, 14, 7, 6, 13, 6, 9, 2, 7, 7, 1, 2, 7,
       7, 6, 0, 3, 0, 1, 0>>,
     <<11, 29, 30, 14, 15, 11, 13, 17, 5, 19, 2, 14, 7, 6, 13, 6, 4, 15, 7, 1, 11, 10, 2, 7,
       8, 7, 6, 0, 3, 0, 1, 0>>,
     <<11, 29, 28, 15, 11, 13, 17, 5, 19, 2, 14, 7, 6, 13, 6, 4, 15, 14, 3, 11, 10, 2, 7, 9,
       8, 7, 0, 3, 0, 2, 1, 0, 0>>,
     <<11, 29, 28, 30, 11, 29, 13, 17, 5, 19, 2, 14, 7, 6, 13, 6, 4, 15, 14, 3, 11, 10, 2,
       7, 9, 8, 7, 0, 3, 0, 2, 1, 0, 0>>,
     <<11, 29, 28, 30, 23, 29, 13, 17, 5, 19, 2, 14, 7, 6, 13, 6, 19, 4, 15, 14, 3, 11, 10,
       2, 7, 9, 8, 7, 0, 3, 0, 2, 1, 0, 0>>,
     <<11, 29, 28, 30, 23, 26, 17, 5, 19, 2, 14, 25, 7, 6, 13, 21, 6, 19, 4, 15, 14, 3, 11,
       10, 2, 7, 9, 8, 7, 0, 3, 0, 2, 1, 0, 0>>,
     <<11, 29, 28, 30, 23, 26, 10, 19, 2, 14, 25, 7, 6, 13, 21, 6, 19, 4, 15, 14, 3, 5, 15,
       14, 13, 9, 8, 7, 0, 7, 0, 6, 2, 1, 0, 2, 0>>,
     <<11, 29, 28, 30, 23, 26, 10, 5, 14, 25, 7, 6, 13, 21, 6, 19, 4, 15, 14, 3, 5, 15, 15,
       1, 7, 0, 5, 3, 1, 8, 1, 4, 6, 1, 0, 2, 1, 0>>,
     <<39, 11, 29, 28, 30, 23, 26, 10, 5, 14, 25, 7, 6, 13, 21, 6, 19, 4, 15, 14, 3, 5, 15,
       15, 1, 7, 0, 5, 3, 1, 8, 1, 4, 6, 1, 0, 2, 1, 0>>,
     <<39, 39, 11, 29, 28, 30, 23, 26, 10, 5, 14, 25, 7, 6, 13, 21, 6, 19, 4, 15, 14, 3, 5,
       15, 15, 1, 7, 0, 5, 3, 1, 8, 1, 4, 6, 1, 0, 2, 1, 0>>,
     <<39, 39, 11, 29, 28, 30, 23, 26, 10, 5, 29, 25, 7, 6, 13, 21, 6, 19, 4, 15, 14, 3, 5,
       15, 17, 15, 1, 7, 0, 5, 3, 1, 8, 1, 4, 6, 1, 0, 2, 1, 0>>,
     <<39, 39, 11, 29, 28, 30, 23, 26, 34, 10, 5, 29, 25, 7, 6, 13, 21, 6, 19, 4, 15, 14, 3,
       5, 15, 17, 15, 1, 7, 0, 5, 3, 1, 8, 1, 4, 6, 1, 0, 2, 1, 0>>,
     <<39, 39, 11, 29, 28, 30, 23, 26, 34, 10, 5, 29, 15, 29, 6, 13, 21, 6, 19, 4, 15, 14,
       3, 5, 15, 17, 15, 1, 14, 0, 13, 5, 3, 1, 8, 1, 4, 6, 1, 0, 2, 1, 0>>,
     <<39, 39, 11, 29, 28, 30, 23, 26, 34, 10, 5, 29, 15, 13, 13, 21, 6, 19, 4, 15, 14, 3,
       22, 21, 5, 15, 17, 15, 1, 14, 0, 13, 5, 3, 1, 8, 1, 4, 6, 1, 0, 2, 1, 0>>,
     <<39, 39, 11, 42, 29, 28, 30, 23, 26, 34, 10, 5, 29, 15, 13, 13, 21, 6, 19, 4, 15, 14,
       3, 22, 21, 5, 15, 17, 15, 1, 14, 0, 13, 5, 3, 1, 8, 1, 4, 6, 1, 0, 2, 1, 0>>,
     <<39, 39, 11, 42, 29, 28, 30, 23, 26, 34, 10, 5, 29, 15, 13, 26, 21, 6, 19, 4, 15, 14,
       3, 22, 21, 5, 15, 19, 17, 15, 1, 14, 0, 13, 5, 3, 1, 8, 1, 4, 6, 1, 0, 2, 1, 0>>,
     <<39, 39, 11, 42, 29, 28, 30, 23, 26, 34, 10, 5, 29, 15, 13, 26, 13, 19, 4, 15, 14, 3,
       22, 21, 5, 15, 19, 17, 15, 1, 14, 1, 11, 14, 13, 3, 1, 8, 1, 4, 2, 0, 5, 4, 2, 1, 0>> >>
Swap(x, i, j) == [x EXCEPT ![i] = x[j], ![j] = x[i]]
RECURSIVE ShuffleFrom(_, _, _)
ShuffleFrom(x, draws, i) ==
  IF i < 1 THEN x ELSE ShuffleFrom(Swap(x, i + 1, draws[Len(x) - i] + 1), draws, i - 1)
Shuffle2020(x) == IF x = <<>> THEN x ELSE ShuffleFrom(x, Seed2020Draws[Len(x)], Len(x) - 1)

\* -------------------------------------------------- dataset: construction
Handle(ref, shape) == [ref |-> ref, shape |-> shape]
\* A constructor that raised: no object, nothing allocated.
Failed(exc, line, h, files) == [exc |-> exc, line |-> line, obj |-> NoDataset, heap |-> h, files |-> files]
SplitNames == {Splits[k] : k \in 1..Len(Splits)}

\* self.stats as handles onto fresh storages, given the values (computed, or
\* read back by torch.load).
ShapeNetStats(vals, h, files) ==
  [exc |-> NoExc, line |-> 0, heap |-> h \o <<vals.mean, vals.std>>, files |-> files,
   stats |-> [mean |-> Handle(Len(h) + 1, <<3>>), std |-> Handle(Len(h) + 2, <<>>)]]
\* lines 83-89
ShapeNetComputeStats(key, all_points, h, files) ==
  ShapeNetStats([mean |-> ColMean(all_points), std |-> <<StdFlat(all_points)>>], h,
                (key :> [mean |-> ColMean(all_points), std |-> <<StdFlat(all_points)>>]) @@ files)
\* lines 77-83: every split of every selected category, concatenated
AllPoints(ids) ==
  FromNumpy(Concat(AsTuple([k \in 1..(3 * Len(ids)) |->
     Concat(H5File[ids[((k - 1) \div 3) + 1]][Splits[((k - 1) % 3) + 1]])])))
\* lines 69-72
ShapeNetStatsPath(ids) ==
  IF Len(ids) = Len(SynsetTable) THEN <<"h5", "stats_all">> ELSE <<"h5", "stats">> \o ids
\* ShapeNetCore.get_statistics, lines 62-90
ShapeNetGetStatistics(ids, h, files) ==
  IF ShapeNetStatsPath(ids) \in DOMAIN files THEN ShapeNetStats(files[ShapeNetStatsPath(ids)], h, files)
  ELSE IF ids = <<>> THEN [exc |-> "RuntimeError", line |-> 83, heap |-> h, files |-> files]
  ELSE ShapeNetComputeStats(ShapeNetStatsPath(ids), AllPoints(ids), h, files)

\* lines 124-132: one more entry, its tensors on fresh storages (scale on the
\* storage of stats['std'] when it is a view of it).
AppendShape(acc, item, ss, std) ==
  [heap |-> acc.heap \o <<Normalise(item.pc, ss.shift, ss.scale), ss.shift>>
                     \o (IF ss.shared THEN <<>> ELSE << <<ss.scale>> >>),
   entries |-> Append(acc.entries,
      [cate |-> item.cate, id |-> item.id,
       t |-> [pointcloud |-> Handle(Len(acc.heap) + 1, <<NumPoints(item.pc), 3>>),
              shift |-> Handle(Len(acc.heap) + 2, <<1, 3>>),
              scale |-> Handle(IF ss.shared THEN std.ref ELSE Len(acc.heap) + 3, <<1, 1>>)]])]
RECURSIVE LoadShapes(_, _, _, _)
LoadShapes(items, scale_mode, std, acc) ==
  IF items = <<>> THEN acc
  ELSE LoadShapes(Tail(items), scale_mode, std,
                  AppendShape(acc, Head(items), ShiftScale(scale_mode, Head(items).pc, acc.heap[std.ref][1]), std))
\* _enumerate_pointclouds, lines 94-98
EnumeratePointclouds(ids, split) ==
  Concat(AsTuple([k \in 1..Len(ids) |-> AsTuple([j \in 1..Len(H5File[ids[k]][split]) |->
     [pc |-> FromNumpy(H5File[ids[k]][split][j]), id |-> j - 1, cate |-> SynsetidToCate(ids[k])]])]))
\* lines 135-136 / 281-282
SortById(entries) == Permute(entries, SortPermutation(AsTuple([k \in 1..Len(entries) |-> entries[k].id])))
SortedShuffled(acc) == [heap |-> acc.heap, entries |-> Shuffle2020(SortById(acc.entries))]
\* ShapeNetCore.load, lines 92-136: appends to self.pointclouds, then sorts and
\* shuffles the whole list.
ShapeNetLoad(ids, split, scale_mode, stats, h, pointclouds) ==
  SortedShuffled(LoadShapes(EnumeratePointclouds(ids, split), scale_mode, stats.std,
                            [heap |-> h, entries |-> pointclouds]))

\* lines 48-51
EffectiveCates(cates) == IF \E k \in 1..Len(cates) : cates[k] = "all" THEN AllCates ELSE cates
Synsetids(cates) == AsTuple([k \in 1..Len(cates) |-> CateToSynsetid(cates[k])])
MutUnsortedSynsetids(ids) == ids
SortSynsetids(ids) == Permute(ids, SortPermutation(AsTuple([k \in 1..Len(ids) |-> SynsetRank(ids[k])])))

\* ShapeNetCore.__init__, lines 42-60: [exc, line, obj, heap, files]
ShapeNetCoreObject(args, ids, st, ld) ==
  [exc |-> NoExc, line |-> 0, heap |-> ld.heap, files |-> st.files,
   obj |-> [kind |-> "ShapeNetCore", cate_synsetids |-> ids, cls |-> PyNone, split |-> args.split,
            scale_mode |-> args.scale_mode, transform |-> args.transform,
            pointclouds |-> ld.entries, stats |-> st.stats, top |-> Len(ld.heap)]]
ShapeNetCoreLoaded(args, ids, st) ==
  IF st.exc # NoExc THEN Failed(st.exc, st.line, st.heap, st.files)
  ELSE ShapeNetCoreObject(args, ids, st, ShapeNetLoad(ids, args.split, args.scale_mode, st.stats, st.heap, <<>>))
ShapeNetCoreIds(args, ids, h, files) ==
  ShapeNetCoreLoaded(args, ids, ShapeNetGetStatistics(ids, h, files))
ShapeNetCoreCates(args, cates, h, files) ==
  IF \E k \in 1..Len(cates) : cates[k] \notin CateNames THEN Failed("KeyError", 50, h, files)
  ELSE ShapeNetCoreIds(args, SortSynsetids(Synsetids(cates)), h, files)
ShapeNetCoreInit(args, h, files) ==
  IF ~args.cates.is_list THEN Failed("AssertionError", 44, h, files)
  ELSE IF args.split \notin SplitNames THEN Failed("AssertionError", 45, h, files)
  ELSE IF ~(args.scale_mode = PyNone \/ args.scale_mode \in ScaleModes) THEN Failed("AssertionError", 46, h, files)
  ELSE ShapeNetCoreCates(args, EffectiveCates(args.cates.items), h, files)

\* PandaSet.normalize_point_cloud with its default mode, lines 169-179
NormalizePointCloud(pc) == Normalise(pc, ColMean(pc), StdFlat(pc))
\* lines 199-205
PandaStats(key, all_points, rel_distance, h, files) ==
  [exc |-> NoExc, line |-> 0,
   heap |-> h \o <<ColMean(all_points), <<StdFlat(all_points)>>, <<MeanFlat(rel_distance)>>,
                   <<StdFlat(rel_distance)>> >>,
   files |-> (key :> [mean |-> ColMean(all_points), std |-> <<StdFlat(all_points)>>,
                      mean_dist_from_center |-> <<MeanFlat(rel_distance)>>,
                      std_dist_from_center |-> <<StdFlat(rel_distance)>>]) @@ files,
   stats |-> [mean |-> Handle(Len(h) + 1, <<3>>), std |-> Handle(Len(h) + 2, <<>>),
              mean_dist_from_center |-> Handle(Len(h) + 3, <<>>),
              std_dist_from_center |-> Handle(Len(h) + 4, <<>>)]]
\* lines 194-197
PandaStatsOver(key, objs, h, files) ==
  IF objs = <<>> THEN [exc |-> "RuntimeError", line |-> 199, heap |-> h, files |-> files]
  ELSE PandaStats(key,
         Concat(AsTuple([k \in 1..Len(objs) |-> NormalizePointCloud(FromNumpy(objs[k].points))])),
         Concat(AsTuple([k \in 1..Len(objs) |->
            RowNorm(Recentre(FromNumpy(objs[k].points), FromNumpy(objs[k].box.position)))])),
         h, files)
\* PandaSet.get_statistics, lines 181-206
PandaGetStatistics(cls, h, files) ==
  IF cls \notin DOMAIN PklFile THEN [exc |-> "KeyError", line |-> 195, heap |-> h, files |-> files]
  ELSE PandaStatsOver(<<"pkl", "stats", cls>>,
                      Concat(AsTuple([k \in 1..Len(Splits) |-> PklFile[cls][Splits[k]]])), h, files)

\* lines 262-268, 272-273
NormalizeAngle(angle) == ((angle + Pi) % (2 * Pi)) - Pi
DivPi(angle) == RDiv(PcUnit * angle, Pi)
\* lines 261-278
AppendObject(acc, obj, id, cls, pc, ss, stats) ==
  [heap |-> acc.heap \o <<Normalise(pc, ss.shift, ss.scale), <<DivPi(obj.box.view_angle)>>,
                          <<DivPi(NormalizeAngle(obj.box.yaw - HalfPi))>> >>,
   entries |-> Append(acc.entries,
      [cate |-> cls, id |-> id,
       t |-> [pointcloud |-> Handle(Len(acc.heap) + 1, <<NumPoints(pc), 3>>),
              view_angle |-> Handle(Len(acc.heap) + 2, <<1>>),
              yaw |-> Handle(Len(acc.heap) + 3, <<1>>),
              shift |-> stats.mean_dist_from_center,
              scale |-> stats.std_dist_from_center]])]
\* lines 236-259
ObjectEntry(acc, obj, id, cls, scale_mode, stats, pc) ==
  AppendObject(acc, obj, id, cls, pc, ShiftScale(scale_mode, pc, acc.heap[stats.std.ref][1]), stats)
RECURSIVE LoadObjects(_, _, _, _, _, _)
LoadObjects(objs, k, cls, scale_mode, stats, acc) ==
  IF k > Len(objs) THEN acc
  ELSE LoadObjects(objs, k + 1, cls, scale_mode, stats,
                   ObjectEntry(acc, objs[k], k - 1, cls, scale_mode, stats,
                               Recentre(FromNumpy(objs[k].points), FromNumpy(objs[k].box.position))))
\* PandaSet.load, lines 227-282: appends to self.pointclouds, then sorts and
\* shuffles the whole list.
PandaLoad(cls, split, scale_mode, stats, h, pointclouds) ==
  SortedShuffled(LoadObjects(PklFile[cls][split], 1, cls, scale_mode, stats,
                             [heap |-> h, entries |-> pointclouds]))

\* PandaSet.__init__, lines 152-167
PandaSetObject(args, st, ld) ==
  [exc |-> NoExc, line |-> 0, heap |-> ld.heap, files |-> st.files,
   obj |-> [kind |-> "PandaSet", cate_synsetids |-> <<>>, cls |-> args.cls, split |-> args.split,
            scale_mode |-> args.scale_mode, transform |-> args.transform,
            pointclouds |-> ld.entries, stats |-> st.stats, top |-> Len(ld.heap)]]
PandaSetLoaded(args, st) ==
  IF st.exc # NoExc THEN Failed(st.exc, st.line, st.heap, st.files)
  ELSE PandaSetObject(args, st, PandaLoad(args.cls, args.split, args.scale_mode, st.stats, st.heap, <<>>))
PandaSetInit(args, h, files) ==
  IF args.split \notin SplitNames THEN Failed("AssertionError", 154, h, files)
  ELSE IF ~(args.scale_mode = PyNone \/ args.scale_mode \in ScaleModes) THEN Failed("AssertionError", 155, h, files)
  ELSE PandaSetLoaded(args, PandaGetStatistics(args.cls, h, files))

\* --------------------------------------- dataset: methods called once more
\* obj.load() on a constructed object: [obj, heap]
Reloaded(obj, ld) ==
  [obj |-> [obj EXCEPT !.pointclouds = ld.entries, !.top = Len(ld.heap)], heap |-> ld.heap]
LoadRun(obj, h) ==
  IF obj.kind = "ShapeNetCore"
  THEN Reloaded(obj, ShapeNetLoad(obj.cate_synsetids, obj.split, obj.scale_mode, obj.stats, h,
                                  obj.pointclouds))
  ELSE Reloaded(obj, PandaLoad(obj.cls, obj.split, obj.scale_mode, obj.stats, h, obj.pointclouds))

\* obj.get_statistics() on a constructed object: self.stats is bound to new
\* tensors (read back from the stats file by ShapeNetCore, computed and saved
\* again by PandaSet); the entries keep the tensors they were built with.
Restated(obj, st) ==
  [obj |-> [obj EXCEPT !.stats = st.stats, !.top = Len(st.heap)], heap |-> st.heap,
   files |-> st.files]
GetStatisticsRun(obj, h, files) ==
  IF obj.kind = "ShapeNetCore"
  THEN Restated(obj, ShapeNetGetStatistics(obj.cate_synsetids, h, files))
  ELSE Restated(obj, PandaGetStatistics(obj.cls, h, files))

\* ---------------------------------------------------- dataset: __getitem__
\* The tensor-valued keys of an entry, in the order of the dict.
FieldOrder(kind) ==
  IF kind = "ShapeNetCore" THEN <<"pointcloud", "shift", "scale">>
  ELSE <<"pointcloud", "view_angle", "yaw", "shift", "scale">>
IndexOf(order, f) == CHOOSE k \in 1..Len(order) : order[k] = f

MutCloneShares(old, new) == old

\* v.clone(): the storage the copy sits on, given the entry's and a fresh one.
CloneRef(old, new) == new

\* line 142 / 288: the dict comprehension; cate and id are immutable values.
CloneEntry(e, order, h) ==
  [data |-> [cate |-> e.cate, id |-> e.id,
             t |-> [f \in DOMAIN e.t |->
                      Handle(CloneRef(e.t[f].ref, Len(h) + IndexOf(order, f)), e.t[f].shape)]],
   heap |-> h \o AsTuple([k \in 1..Len(order) |-> h[e.t[order[k]].ref]])]
\* lines 143-144 / 289-290: a transform that works in place on the point cloud.
Transformed(transform, r) ==
  IF transform = PyNone THEN r
  ELSE [data |-> r.data, heap |-> [r.heap EXCEPT ![r.data.t["pointcloud"].ref] = Zeros(Len(@))]]
\* __getitem__, lines 141-145 / 287-291: [data, heap]
GetItemRun(obj, h, idx) ==
  Transformed(obj.transform, CloneEntry(obj.pointclouds[idx + 1], FieldOrder(obj.kind), h))
\* __len__, lines 138-139 / 284-285
LenRun(obj) == Len(obj.pointclouds)

\* What a dict of tensors holds: shapes and numbers.
Value(data, h) ==
  [cate |-> data.cate, id |-> data.id,
   t |-> [f \in DOMAIN data.t |-> [shape |-> data.t[f].shape, data |-> h[data.t[f].ref]]]]
StoredValues(obj, h) == AsTuple([k \in 1..Len(obj.pointclouds) |-> Value(obj.pointclouds[k], h)])

\* ---------------------------------------------------------------- SpecData
\* One dataset object "a": constructed once from any arguments, then indexed,
\* reloaded with load(), its statistics recomputed with get_statistics(), and
\* the returned sample written to in place by the caller.
PyList(items) == [is_list |-> TRUE, items |-> items]
NotAList == [is_list |-> FALSE, items |-> <<>>]
CatesInputs ==
  {PyList(<<"airplane">>), PyList(<<"can", "airplane">>), PyList(<<"airplane", "can">>),
   PyList(<<"all">>), PyList(<<"all", "spaceship">>), PyList(<<"spaceship">>),
   PyList(<<"airplane", "spaceship">>), PyList(<<>>), NotAList}
ClsInputs == {"Car", "Pedestrian", "Bus"}
SplitInputs == SplitNames \cup {"trainval"}
ScaleInputs == ScaleModes \cup {PyNone, "unit"}
TransformInputs == {PyNone, "zero_"}
ShapeNetCoreArgs ==
  [cates : CatesInputs, cls : {PyNone}, split : SplitInputs, scale_mode : ScaleInputs,
   transform : TransformInputs]
PandaSetArgs ==
  [cates : {NotAList}, cls : ClsInputs, split : SplitInputs, scale_mode : ScaleInputs,
   transform : TransformInputs]

\* The name i is bound to what the constructor call returned, if it returned.
Constructed(i, kind, args, r) ==
  /\ ds' = [ds EXCEPT ![i] = r.obj]
  /\ built' = [built EXCEPT ![i] =
                 [done |-> TRUE, kind |-> kind, args |-> args, exc |-> r.exc, line |-> r.line,
                  loads |-> 0, stats_calls |-> 0,
                  items |-> IF r.exc = NoExc THEN StoredValues(r.obj, r.heap) ELSE <<>>]]
  /\ heap' = r.heap
  /\ statsFiles' = r.files
  /\ UNCHANGED <<handed, modelVars>>

InitData ==
  /\ sd = InitStateDict
  /\ training = TRUE
  /\ calls = 0
  /\ last = NoCall
  /\ loaded = NoLoad
  /\ DataFresh

NewShapeNetCore ==
  /\ ~built["a"].done
  /\ \E args \in ShapeNetCoreArgs :
       \E r \in {ShapeNetCoreInit(args, heap, statsFiles)} : Constructed("a", "ShapeNetCore", args, r)

NewPandaSet ==
  /\ ~built["a"].done
  /\ \E args \in PandaSetArgs :
       \E r \in {PandaSetInit(args, heap, statsFiles)} : Constructed("a", "PandaSet", args, r)

\* dataset[idx]; the sample returned before is dropped.
GetItem ==
  /\ ds["a"].kind # "none"
  /\ \E idx \in 0..(LenRun(ds["a"]) - 1) :
       \E r \in {GetItemRun(ds["a"], SubSeq(heap, 1, ds["a"].top), idx)} :
          /\ heap' = r.heap
          /\ handed' = [inst |-> "a", idx |-> idx, data |-> r.data, value |-> Value(r.data, r.heap)]
  /\ UNCHANGED <<ds, built, statsFiles, modelVars>>

\* The caller overwrites one tensor of the returned sample in place.
Mutate ==
  /\ handed.inst # "none"
  /\ \E f \in DOMAIN handed.data.t :
       /\ heap[handed.data.t[f].ref] # Zeros(Len(heap[handed.data.t[f].ref]))
       /\ heap' = [heap EXCEPT ![handed.data.t[f].ref] = Zeros(Len(@))]
  /\ UNCHANGED <<ds, built, statsFiles, handed, modelVars>>

\* The calls of load() and get_statistics() made on constructed objects so far.
Reloads ==
  built["a"].loads + built["a"].stats_calls + built["b"].loads + built["b"].stats_calls

\* The heap once the caller has let go of the sample returned before.
Dropped ==
  IF handed.inst = "none" THEN heap
  ELSE SubSeq(heap, 1, Len(heap) - Len(FieldOrder(ds[handed.inst].kind)))

\* One more call of the public load() on a constructed object; the sample
\* returned before is dropped.
Load ==
  \E i \in Instances :
     /\ ds[i].kind # "none"
     /\ Reloads < MaxReloads
     /\ \E r \in {LoadRun(ds[i], Dropped)} :
          /\ ds' = [ds EXCEPT ![i] = r.obj]
          /\ built' = [built EXCEPT ![i].loads = @ + 1, ![i].items = StoredValues(r.obj, r.heap)]
          /\ heap' = r.heap
     /\ handed' = NoSample
     /\ UNCHANGED <<statsFiles, modelVars>>

\* One more call of the public get_statistics() on a constructed object; the
\* sample returned before is dropped.
GetStatistics ==
  \E i \in Instances :
     /\ ds[i].kind # "none"
     /\ Reloads < MaxReloads
     /\ \E r \in {GetStatisticsRun(ds[i], Dropped, statsFiles)} :
          /\ ds' = [ds EXCEPT ![i] = r.obj]
          /\ built' = [built EXCEPT ![i].stats_calls = @ + 1]
          /\ heap' = r.heap
          /\ statsFiles' = r.files
     /\ handed' = NoSample
     /\ UNCHANGED modelVars

NextData == NewShapeNetCore \/ NewPandaSet \/ Load \/ GetStatistics \/ GetItem \/ Mutate

SpecData == InitData /\ [][NextData]_vars

\* --------------------------------------------------------------- SpecOrder
\* Two dataset objects over the same files and stats directory: "a" from any
\* arguments, then "b" from the same arguments with the categories of "a"
\* listed in any order.
CatesLists == UNION {[1..n -> CateNames] : n \in 1..MaxCates}
OrderShapeNetCoreArgs ==
  [cates : {PyList(c) : c \in CatesLists}, cls : {PyNone}, split : {"train"},
   scale_mode : {PyNone, "global_unit"}, transform : {PyNone}]
OrderPandaSetArgs ==
  [cates : {NotAList}, cls : {"Car", "Pedestrian"}, split : {"train"},
   scale_mode : {PyNone, "global_unit"}, transform : {PyNone}]
Count(items, name) == Cardinality({k \in 1..Len(items) : items[k] = name})
SameCategories(x, y) ==
  /\ Len(x) = Len(y)
  /\ \A name \in CateNames \cup {"all"} : Count(x, name) = Count(y, name)
SameArguments(x, y) ==
  /\ x.split = y.split
  /\ x.scale_mode = y.scale_mode
  /\ x.cls = y.cls
  /\ SameCategories(x.cates.items, y.cates.items)
Turn(i, kind, args) ==
  /\ ~built[i].done
  /\ i = "b" =>
       /\ built["a"].done
       /\ built["a"].kind = kind
       /\ SameArguments(built["a"].args, args)

OrderShapeNetCore ==
  \E i \in Instances :
     \E args \in OrderShapeNetCoreArgs :
        /\ Turn(i, "ShapeNetCore", args)
        /\ \E r \in {ShapeNetCoreInit(args, heap, statsFiles)} : Constructed(i, "ShapeNetCore", args, r)

OrderPandaSet ==
  \E i \in Instances :
     \E args \in OrderPandaSetArgs :
        /\ Turn(i, "PandaSet", args)
        /\ \E r \in {PandaSetInit(args, heap, statsFiles)} : Constructed(i, "PandaSet", args, r)

NextOrder == OrderShapeNetCore \/ OrderPandaSet \/ Load \/ GetStatistics

SpecOrder == InitData /\ [][NextOrder]_vars

\* ------------------------------------------------------- claims, SpecLoad
\* The keys of the last mapping that name an entry of the model; of these, the
\* ones that give a 0-d entry an empty 1-d tensor, and the ones whose value is
\* not a tensor or is a tensor of another shape than the entry (a 1-d tensor
\* for a 0-d entry counts as its first element).
Matched == ModelKeys \cap DOMAIN loaded.incoming
EmptyForCounter ==
  {k \in Matched : /\ loaded.incoming[k].kind = "Tensor"
                   /\ ShapeOf(k, loaded.before[k]) = <<>>
                   /\ loaded.incoming[k].shape = <<0>>}
Unfit ==
  {k \in Matched \ EmptyForCounter :
     \/ loaded.incoming[k].kind # "Tensor"
     \/ /\ loaded.incoming[k].shape # ShapeOf(k, loaded.before[k])
        /\ ~(ShapeOf(k, loaded.before[k]) = <<>> /\ Len(loaded.incoming[k].shape) = 1)}
\* The entries the call never came to: those not in front of an entry of
\* EmptyForCounter in the order of the modules.
Unvisited ==
  {k \in Matched : \E e \in EmptyForCounter : Position(e) <= Position(k)}
\* The value an entry takes from the mapping.
IncomingValue(k) ==
  IF ShapeOf(k, loaded.before[k]) = <<>> /\ loaded.incoming[k].shape # <<>>
  THEN loaded.incoming[k].data[1] ELSE loaded.incoming[k].data

\* C1 as stated: a partial load never raises; a parameter whose name is in the
\* mapping takes the incoming value, any other keeps its value, and unknown
\* incoming keys add nothing to the model's state.
C1_PartialLoad ==
  loaded.done =>
    /\ loaded.exc = NoExc
    /\ DOMAIN sd = ModelKeys
    /\ \A k \in ModelKeys :
         sd[k] = IF k \in Matched THEN IncomingValue(k) ELSE loaded.before[k]

\* C1 as amended: a partial load never raises for missing or unknown keys.  It
\* raises IndexError when a 0-d entry is given an empty 1-d tensor, and
\* otherwise RuntimeError exactly when a matched key carries a value that is
\* not a tensor or a tensor of another shape than the entry.  A matched entry
\* with a fitting tensor takes the incoming value, unless the call ended with
\* IndexError before it came to the entry; any other entry keeps its value,
\* and unknown incoming keys add nothing to the model's state.
C1_PartialLoadOfShape ==
  loaded.done =>
    /\ loaded.exc = (IF EmptyForCounter # {} THEN "IndexError"
                     ELSE IF Unfit # {} THEN "RuntimeError" ELSE NoExc)
    /\ DOMAIN sd = ModelKeys
    /\ \A k \in ModelKeys :
         sd[k] = IF k \in Matched \ (Unfit \cup Unvisited)
                 THEN IncomingValue(k) ELSE loaded.before[k]

\* A load with an unknown key, at least half of the model's keys missing, and a
\* present key whose incoming value differs from the value it replaces.
C1_Witness ==
  /\ loaded.done
  /\ loaded.exc = NoExc
  /\ DOMAIN loaded.incoming \ ModelKeys # {}
  /\ 2 * Cardinality(ModelKeys \ DOMAIN loaded.incoming) >= Cardinality(ModelKeys)
  /\ \E k \in Matched : sd[k] # loaded.before[k]
  /\ \E k \in ModelKeys \ DOMAIN loaded.incoming : loaded.before[k] # InitStateDict[k]

\* ------------------------------------------------------- claims, SpecModel
\* What sample i's conditioning yields when sample i is the whole batch, in
\* inference mode, with the parameters the last call started from.
AloneAttention(i) ==
  ConditioningBlock(last.before, FALSE, <<last.batch[i]>>).mhsa.items[1].data[1]

\* C2: every get_loss call hands one and the same value to the flow prior and
\* to the decoder as context: the (B, D) output of the conditioning block.
C2_SameContextToPriorAndDecoder ==
  (last.op = "get_loss" /\ last.exc # "ValueError") =>
    /\ last.flow_in.kind = "Tensor"
    /\ last.context = last.flow_in
    /\ Len(last.flow_in.data) = Len(last.batch)
    /\ \A i \in 1..Len(last.batch) : Len(last.flow_in.data[i]) = LatentDim

\* C3: in inference mode the attention output of sample i in a batch equals
\* the attention output of sample i processed alone.
C3_BatchIndependent ==
  (last.op # "none" /\ ~last.training /\ last.mhsa.kind = "tuple") =>
    \A i \in 1..Len(last.batch) : last.mhsa.items[1].data[i] = AloneAttention(i)

\* C6: get_loss returns kl_weight * (-mean(entropy) - mean(log_pw - delta_log_pw))
\* + neg_elbo.
C6_ReturnsComposedLoss ==
  (last.op = "get_loss" /\ last.exc # "ValueError") =>
    /\ last.exc = NoExc
    /\ last.ret.kind = "Tensor"
    /\ last.ret.data = last.kl_weight * (-last.ext.entropy - (last.ext.log_pw - last.ext.delta_log_pw))
                         + last.ext.neg_elbo

\* C7: every sample call runs the reverse steps T, T-1, ..., 1, adds noise only
\* at t > 1 and ends in x_0.
C7_ExactlyTReverseSteps ==
  (last.op = "sample" /\ last.exc # "ValueError") =>
    /\ last.exc = NoExc
    /\ Len(last.steps) = NumSteps
    /\ \A i \in 1..NumSteps : last.steps[i] = NumSteps + 1 - i
    /\ last.noised = 2..NumSteps
    /\ last.final = "x_0"

\* C8: a get_loss or sample call leaves every learned parameter and the variance
\* schedule as they were, and in inference mode the whole state_dict.
C8_CallsLeaveSharedState ==
  last.op # "none" =>
    /\ \A k \in ParamKeys \cup ScheduleKeys : sd[k] = last.before[k]
    /\ (~last.training => sd = last.before)

\* A training-mode call moved the running statistics, and a later
\* inference-mode call then left the whole state_dict alone.
C8_Witness ==
  /\ last.op # "none"
  /\ ~last.training
  /\ sd = last.before
  /\ sd["BN1.num_batches_tracked"] = 1
  /\ sd["BN1.running_var"] # InitStateDict["BN1.running_var"]
  /\ last.mhsa.kind = "tuple"

\* -------------------------------------------------------- claims, SpecData
\* What the constructors accept: a split and a scale_mode of the documented
\* sets, for ShapeNetCore a list of known category names or 'all', for
\* PandaSet a class of the file.
ValidArguments(kind, args) ==
  /\ args.split \in SplitNames
  /\ args.scale_mode = PyNone \/ args.scale_mode \in ScaleModes
  /\ kind = "ShapeNetCore" =>
       /\ args.cates.is_list
       /\ \A k \in 1..Len(args.cates.items) : args.cates.items[k] \in CateNames \cup {"all"}
  /\ kind = "PandaSet" => args.cls \in DOMAIN PklFile

\* C4: a constructor call with an invalid split, an invalid scale_mode or a
\* category the dataset does not know raises, and no dataset object is returned.
C4_InvalidArgumentsFailAtConstruction ==
  \A i \in Instances :
     (built[i].done /\ ~ValidArguments(built[i].kind, built[i].args))
        => (built[i].exc # NoExc /\ ds[i] = NoDataset)

\* C5: every entry a PandaSet object stores has view_angle and yaw in [-1, 1].
C5_PoseInUnitRange ==
  \A i \in Instances :
     ds[i].kind = "PandaSet" =>
        \A k \in 1..Len(ds[i].pointclouds) :
           /\ heap[ds[i].pointclouds[k].t["view_angle"].ref][1] \in (-PcUnit)..PcUnit
           /\ heap[ds[i].pointclouds[k].t["yaw"].ref][1] \in (-PcUnit)..PcUnit

\* The storages the entries and the statistics of a dataset object sit on.
StoredRefs(obj) ==
  UNION {{obj.pointclouds[k].t[f].ref : f \in DOMAIN obj.pointclouds[k].t} :
           k \in 1..Len(obj.pointclouds)}
    \cup {obj.stats[f].ref : f \in DOMAIN obj.stats}

\* C10: entries stored in a dataset object keep the values they had when the
\* constructor, or the last load(), returned and their number stays the same,
\* whatever was indexed and whatever was written to the returned samples; a
\* returned sample sits on storages of its own and, without a transform,
\* carries the stored values.
C10_StoredEntriesNeverChange ==
  ds["a"].kind # "none" =>
     /\ LenRun(ds["a"]) = Len(built["a"].items)
     /\ StoredValues(ds["a"], heap) = built["a"].items
     /\ handed.inst # "none" =>
          /\ \A f \in DOMAIN handed.data.t : handed.data.t[f].ref \notin StoredRefs(ds["a"])
          /\ ds["a"].transform = PyNone => handed.value = built["a"].items[handed.idx + 1]

\* A sample was returned without a transform and the caller then zeroed its
\* point cloud in place.
C10_Witness ==
  /\ ds["a"].kind # "none"
  /\ ds["a"].transform = PyNone
  /\ handed.inst # "none"
  /\ Value(handed.data, heap) # handed.value
  /\ heap[handed.data.t["pointcloud"].ref] = Zeros(Len(handed.value.t["pointcloud"].data))

\* ------------------------------------------------------- claims, SpecOrder
SameSelection ==
  /\ ds["a"].kind # "none" /\ ds["b"].kind # "none"
  /\ built["a"].kind = built["b"].kind
  /\ SameArguments(built["a"].args, built["b"].args)
  /\ built["a"].loads = built["b"].loads

\* C9: two dataset objects built from the same file, split and scale_mode and
\* from the same categories listed in any order have the same length and
\* return the same sample at every index, after construction and after as
\* many calls of load() on the one as on the other.
C9_OrderIndependentOfCatesOrder ==
  SameSelection =>
     /\ LenRun(ds["a"]) = LenRun(ds["b"])
     /\ \A idx \in 0..(LenRun(ds["a"]) - 1) :
          Value(GetItemRun(ds["a"], heap, idx).data, GetItemRun(ds["a"], heap, idx).heap)
            = Value(GetItemRun(ds["b"], heap, idx).data, GetItemRun(ds["b"], heap, idx).heap)

\* Two ShapeNetCore objects over the same two categories given in opposite
\* orders, three samples each.
C9_Witness ==
  /\ SameSelection
  /\ built["a"].kind = "ShapeNetCore"
  /\ built["a"].args.cates.items = <<"airplane", "can">>
  /\ built["b"].args.cates.items = <<"can", "airplane">>
  /\ built["a"].args.scale_mode = "global_unit"
  /\ LenRun(ds["b"]) = 3

=============================================================================
